---- MODULE Spec2Model ----
(***************************************************************************)
(* hashstorage-utils: the conversion layer (src/src/convert.rs) and the    *)
(* signing layer (src/src/crypto.rs).                                      *)
(*                                                                         *)
(* Every function of the crate is pure.  A specification below draws the   *)
(* arguments of a group of functions in its initial states and has one     *)
(* action per function call; the variables hold the arguments and the      *)
(* returned values.  A call that panics (an unwrap on Err, a slice out of  *)
(* range) returns Panic; a call that returns v returns Ok(v).              *)
(*                                                                         *)
(* A &str is a sequence of Unicode scalar values; as_bytes is its UTF-8    *)
(* encoding.  A byte is a number in 0..255.                                *)
(***************************************************************************)
EXTENDS Integers, Sequences, FiniteSets, TLC

VARIABLES
    pc,          \* position of the calling sequence
    s,           \* the &str argument of str_to_bytes_sized
    L,           \* the const generic width L
    sbytes,      \* result of str_to_bytes_sized::<L>(s)
    sback,       \* result of str_from_bytes(sbytes)
    hex,         \* the &str argument of hex_to_bytes_vec and hex_to_bytes
    hvec,        \* result of hex_to_bytes_vec(hex)
    harr,        \* result of hex_to_bytes::<L>(hex)
    hout,        \* result of hex_from_bytes(hvec)
    pt,          \* a Point<4>: argument of the key and signature encoders
    kenc,        \* result of private_key/public_key/signature _to_bytes
    kdec,        \* result of private_key/public_key/signature _from_bytes
    group,       \* record: group, [u8; 32]
    key,         \* record: key, [u8; 32]
    version,     \* record: version, u64
    data,        \* record: data, &[u8]
    packed,      \* the local `bytes` of sha256_pack
    digest,      \* result of sha256_pack
    pair_private, \* generate_pair().0
    pair_public, \* generate_pair().1
    signature,   \* result of build_signature
    result,      \* result of check_signature
    pair_ok      \* result of check_pair

strVars  == <<s, L, sbytes, sback>>
hexVars  == <<hex, hvec, harr, hout>>
keyVars  == <<pt, kenc, kdec>>
recVars  == <<group, key, version, data>>
packVars == <<packed, digest>>
signVars == <<pair_private, pair_public, signature, result, pair_ok>>

vars == <<pc, strVars, hexVars, keyVars, recVars, packVars, signVars>>

----------------------------------------------------------------------------
(* Results of calls *)

Ok(v) == [ok |-> TRUE, val |-> v]
Panic == [ok |-> FALSE, val |-> <<>>]
None == [ok |-> FALSE, val |-> << -1 >>]   \* the call has not been made

Zeros(n) == [i \in 1..n |-> 0]

Reverse(q) == [i \in 1..Len(q) |-> q[Len(q) + 1 - i]]

(* The element of a set of one element.  The({ e(x) : x \in {v} }) is a  *)
(* let binding, e(v) with v evaluated once.                                *)
The(S) == CHOOSE r \in S : TRUE

(* All sequences over S of length 0..n *)
SeqsUpTo(S, n) == UNION {[1..k -> S] : k \in 0..n}

----------------------------------------------------------------------------
(* &str <-> bytes: UTF-8 *)

(* char::encode_utf8 *)
Utf8(c) ==
    IF c < 128 THEN <<c>>
    ELSE IF c < 2048 THEN <<192 + (c \div 64), 128 + (c % 64)>>
    ELSE IF c < 65536 THEN
        <<224 + (c \div 4096), 128 + ((c \div 64) % 64), 128 + (c % 64)>>
    ELSE <<240 + (c \div 262144), 128 + ((c \div 4096) % 64),
           128 + ((c \div 64) % 64), 128 + (c % 64)>>

(* str::as_bytes *)
RECURSIVE as_bytes(_)
as_bytes(str) ==
    IF str = <<>> THEN <<>> ELSE Utf8(Head(str)) \o as_bytes(Tail(str))

IsCont(b) == b >= 128 /\ b < 192

(* String::from_utf8: Ok(the scalar values) or Panic on an invalid sequence *)
RECURSIVE from_utf8(_)
from_utf8(b) ==
    IF b = <<>> THEN Ok(<<>>)
    ELSE
      LET b1 == b[1]
          n  == IF b1 < 128 THEN 1
                ELSE IF b1 >= 194 /\ b1 <= 223 THEN 2
                ELSE IF b1 >= 224 /\ b1 <= 239 THEN 3
                ELSE IF b1 >= 240 /\ b1 <= 244 THEN 4
                ELSE 0
          wellFormed == /\ n > 0
                        /\ Len(b) >= n
                        /\ \A k \in 2..n : IsCont(b[k])
          cp == IF n = 1 THEN b1
                ELSE IF n = 2 THEN (b1 - 192) * 64 + (b[2] - 128)
                ELSE IF n = 3 THEN
                    (b1 - 224) * 4096 + (b[2] - 128) * 64 + (b[3] - 128)
                ELSE (b1 - 240) * 262144 + (b[2] - 128) * 4096
                     + (b[3] - 128) * 64 + (b[4] - 128)
          scalar == /\ (n = 3 => cp >= 2048 /\ ~(cp >= 55296 /\ cp <= 57343))
                    /\ (n = 4 => cp >= 65536 /\ cp <= 1114111)
      IN  IF ~wellFormed THEN Panic
          ELSE IF ~scalar THEN Panic
          ELSE LET rest == from_utf8(SubSeq(b, n + 1, Len(b)))
               IN  IF rest.ok THEN Ok(<<cp>> \o rest.val) ELSE Panic

(* Vec::resize(new_len, 0): truncates when longer, pads with 0 when shorter *)
resize(v, n) ==
    IF Len(v) >= n THEN SubSeq(v, 1, n) ELSE v \o Zeros(n - Len(v))

(* Vec<u8> -> [u8; N] by try_into().unwrap(): Ok only when the length is N *)
try_into_array(v, n) == IF Len(v) = n THEN Ok(v) ELSE Panic

(* convert.rs: str_to_bytes_sized::<L>(s) *)
str_to_bytes_sized(str, width) ==
    LET v == resize(as_bytes(str), width)
    IN  try_into_array(v, width)

(* mutant of bytes_truncated: every zero byte is dropped, not the trailing ones *)
bytes_truncated_all(b) == SelectSeq(b, LAMBDA x : x # 0)

(* bytes.into_iter().rev().skip_while(|x| x == 0).collect(), then reverse *)
RECURSIVE bytes_truncated(_)
bytes_truncated(b) ==
    IF b = <<>> THEN b
    ELSE IF b[Len(b)] # 0 THEN b
    ELSE bytes_truncated(SubSeq(b, 1, Len(b) - 1))

(* convert.rs: str_from_bytes(bytes) *)
str_from_bytes(b) == from_utf8(bytes_truncated(b))

----------------------------------------------------------------------------
(* Hex *)

(* char::to_digit(16): the digit value, or -1 *)
to_digit(c) ==
    IF c >= 48 /\ c <= 57 THEN c - 48
    ELSE IF c >= 65 /\ c <= 70 THEN c - 55
    ELSE IF c >= 97 /\ c <= 102 THEN c - 87
    ELSE -1

RECURSIVE radix_value(_, _)
radix_value(digits, acc) ==
    IF digits = <<>> THEN acc
    ELSE radix_value(Tail(digits), acc * 16 + to_digit(Head(digits)))

(* u8::from_str_radix(src, 16) on the bytes of src: an unsigned type takes *)
(* one leading '+' (43) and no '-' (45); Ok(value) or Panic for the Err    *)
(* that the caller unwraps                                                 *)
from_str_radix(src) ==
    IF src = <<>> THEN Panic
    ELSE IF Len(src) = 1 /\ src[1] \in {43, 45} THEN Panic
    ELSE LET digits == IF src[1] = 43 THEN Tail(src) ELSE src
         IN  IF \E k \in 1..Len(digits) : to_digit(digits[k]) = -1 THEN Panic
             ELSE IF radix_value(digits, 0) > 255 THEN Panic
             ELSE Ok(radix_value(digits, 0))

(* str::is_char_boundary on the UTF-8 bytes b, index i counted from 0 *)
is_char_boundary(b, i) ==
    \/ i = 0
    \/ i = Len(b)
    \/ (i < Len(b) /\ ~IsCont(b[i + 1]))

(* &hex[i..(i + 2)], i counted from 0: Panic when out of range or when an  *)
(* end is inside a character                                               *)
str_slice(b, i, j) ==
    IF j > Len(b) \/ ~is_char_boundary(b, i) \/ ~is_char_boundary(b, j)
    THEN Panic
    ELSE Ok(SubSeq(b, i + 1, j))

(* one step of the map closure of hex_to_bytes_vec *)
hex_pair(b, i) ==
    LET sl == str_slice(b, i, i + 2)
    IN  IF sl.ok THEN from_str_radix(sl.val) ELSE Panic

(* (0..hex.len()).step_by(2): the indices 0, 2, 4, ... below hex.len() *)
step_by_2(n) == [k \in 1..((n + 1) \div 2) |-> 2 * (k - 1)]

(* mutant of hex_to_bytes_vec: the pairs are taken first to last (no rev) *)
hex_to_bytes_vec_forward(h) ==
    LET b   == as_bytes(h)
        idx == step_by_2(Len(b))
        out == [k \in 1..Len(idx) |-> hex_pair(b, idx[k])]
    IN  IF \E k \in 1..Len(idx) : ~out[k].ok THEN Panic
        ELSE Ok([k \in 1..Len(idx) |-> out[k].val])

(* convert.rs: hex_to_bytes_vec(hex) *)
hex_to_bytes_vec(h) ==
    LET b   == as_bytes(h)
        idx == Reverse(step_by_2(Len(b)))
        out == [k \in 1..Len(idx) |-> hex_pair(b, idx[k])]
    IN  IF \E k \in 1..Len(idx) : ~out[k].ok THEN Panic
        ELSE Ok([k \in 1..Len(idx) |-> out[k].val])

(* convert.rs: hex_to_bytes::<L>(hex) *)
hex_to_bytes(h, width) ==
    LET v == hex_to_bytes_vec(h)
    IN  IF v.ok THEN try_into_array(v.val, width) ELSE Panic

(* one digit of {:X}: '0'..'9', 'A'..'F' *)
upper_hex_digit(d) == IF d < 10 THEN 48 + d ELSE 55 + d

(* mutant of format_02X: "{:X?}", no padding to two digits *)
format_X(b) ==
    IF b < 16 THEN <<upper_hex_digit(b)>>
    ELSE <<upper_hex_digit(b \div 16), upper_hex_digit(b % 16)>>

(* format!("{:02X?}", b) for a u8: two upper-case hex digits *)
format_02X(b) == <<upper_hex_digit(b \div 16), upper_hex_digit(b % 16)>>

(* convert.rs: hex_from_bytes(bytes) *)
RECURSIVE hex_from_bytes(_)
hex_from_bytes(b) ==
    IF b = <<>> THEN <<>>
    ELSE format_02X(b[Len(b)]) \o hex_from_bytes(SubSeq(b, 1, Len(b) - 1))

----------------------------------------------------------------------------
(* u64 and Bigi<4>                                                         *)
(*                                                                         *)
(* A u64 is written as its four 16-bit digits, most significant first      *)
(* (the value is w[1]*2^48 + w[2]*2^32 + w[3]*2^16 + w[4]); a Bigi<4> is   *)
(* its four u64 limbs, least significant limb first.                       *)

U64Zero == <<0, 0, 0, 0>>
U64Of(n) == <<0, 0, 0, n>>                  \* for n < 2^16

(* mutant of to_le_bytes: u64::to_be_bytes *)
to_be_bytes(v) ==
    << v[1] \div 256, v[1] % 256, v[2] \div 256, v[2] % 256,
       v[3] \div 256, v[3] % 256, v[4] \div 256, v[4] % 256 >>

(* u64::to_le_bytes *)
to_le_bytes(v) ==
    << v[4] % 256, v[4] \div 256, v[3] % 256, v[3] \div 256,
       v[2] % 256, v[2] \div 256, v[1] % 256, v[1] \div 256 >>

(* u64::from_le_bytes on 8 bytes *)
from_le_bytes(b) ==
    << b[8] * 256 + b[7], b[6] * 256 + b[5], b[4] * 256 + b[3],
       b[2] * 256 + b[1] >>

BigiZero == <<U64Zero, U64Zero, U64Zero, U64Zero>>
BigiOf(n) == <<U64Of(n), U64Zero, U64Zero, U64Zero>>    \* for n < 2^16

(* Bigi::<4>::to_bytes: the limbs in order, each in little-endian bytes *)
bigi_to_bytes(v) ==
    to_le_bytes(v[1]) \o to_le_bytes(v[2]) \o to_le_bytes(v[3])
        \o to_le_bytes(v[4])

(* Bigi::<4>::from_bytes: little-endian bytes, missing high bytes are 0 *)
bigi_from_bytes(b) ==
    The({ [k \in 1..4 |-> from_le_bytes(SubSeq(padded, 8 * k - 7, 8 * k))] :
            padded \in {resize(b, 32)} })

(* point!(x, y) and the zero point of Point<4> *)
point(x, y) == [x |-> x, y |-> y, is_zero |-> FALSE]
point_zero == [x |-> BigiZero, y |-> BigiZero, is_zero |-> TRUE]

(* &v[..n]: Panic when n is beyond the end *)
slice_to(v, n) == IF n > Len(v) THEN Panic ELSE Ok(SubSeq(v, 1, n))

(* &v[n..]: Panic when n is beyond the end *)
slice_from(v, n) == IF n > Len(v) THEN Panic ELSE Ok(SubSeq(v, n + 1, Len(v)))

(* convert.rs: private_key_to_bytes(b) *)
private_key_to_bytes(b) ==
    LET sl == slice_to(bigi_to_bytes(b), 32)
    IN  IF sl.ok THEN try_into_array(sl.val, 32) ELSE Panic

(* convert.rs: private_key_from_bytes(bytes) *)
private_key_from_bytes(bytes) == bigi_from_bytes(bytes)

(* [a, b].concat().try_into().unwrap() of two 32-byte slices *)
concat_halves(a, b) ==
    LET x  == slice_to(bigi_to_bytes(a), 32)
        y  == slice_to(bigi_to_bytes(b), 32)
    IN  IF x.ok /\ y.ok THEN try_into_array(x.val \o y.val, 64) ELSE Panic

(* mutant of public_key_to_bytes: the x coordinate is written twice *)
public_key_to_bytes_xx(p) == concat_halves(p.x, p.x)

(* convert.rs: public_key_to_bytes(p) *)
public_key_to_bytes(p) == concat_halves(p.x, p.y)

(* mutant of public_key_from_bytes: both numbers are read from &bytes[..32] *)
public_key_from_bytes_low(bytes) ==
    point(bigi_from_bytes(slice_to(bytes, 32).val),
          bigi_from_bytes(slice_to(bytes, 32).val))

(* convert.rs: public_key_from_bytes(bytes) *)
public_key_from_bytes(bytes) ==
    point(bigi_from_bytes(slice_to(bytes, 32).val),
          bigi_from_bytes(slice_from(bytes, 32).val))

(* mutant of signature_to_bytes: the pair is written as s, r *)
signature_to_bytes_swapped(sig) == concat_halves(sig[2], sig[1])

(* convert.rs: signature_to_bytes(signature) *)
signature_to_bytes(sig) == concat_halves(sig[1], sig[2])

(* convert.rs: signature_from_bytes(bytes) *)
signature_from_bytes(bytes) ==
    << bigi_from_bytes(slice_to(bytes, 32).val),
       bigi_from_bytes(slice_from(bytes, 32).val) >>

----------------------------------------------------------------------------
(* Hashing *)

(* the sum of the bytes lo..hi of b, and their sum weighted by position *)
RECURSIVE absorb(_, _, _)
absorb(b, lo, hi) ==
    IF lo > hi THEN <<0, 0>>
    ELSE IF lo = hi THEN <<b[lo], lo * (b[lo] + 1)>>
    ELSE LET mid   == (lo + hi) \div 2
             left  == absorb(b, lo, mid)
             right == absorb(b, mid + 1, hi)
         IN  <<left[1] + right[1], left[2] + right[2]>>

(* crypto.rs: sha256_hash(bytes).  The sha2 crate is outside the           *)
(* repository: the digest is a fixed function of the bytes with 32 bytes   *)
(* of output, here one that depends on every byte and on its position.     *)
digest_of(w, n) == [j \in 1..32 |-> (w[1] * j + w[2] + 7 * j + n) % 256]

sha256_hash(b) ==
    The({ The({ digest_of(w, Len(bs)) : w \in {absorb(bs, 1, Len(bs))} }) :
            bs \in {b} })

(* mutant of pack: the version without its high zero bytes *)
pack_trimmed(g, k, v, d) == g \o k \o bytes_truncated(to_le_bytes(v)) \o d

(* [group, key, &version.to_le_bytes()[..], data].concat() *)
pack(g, k, v, d) == g \o k \o to_le_bytes(v) \o d

(* crypto.rs: sha256_pack(group, key, version, data) *)
sha256_pack(g, k, v, d) == sha256_hash(pack(g, k, v, d))

----------------------------------------------------------------------------
(* The schema: curve and ECDSA of bigi_ecc                                 *)
(*                                                                         *)
(* bigi_ecc is outside the repository.  load_secp256k1() is the curve      *)
(* y^2 = x^3 + 7 over a 256-bit prime field; the model keeps the equation  *)
(* and takes the field of 43 elements, where the curve has the prime order *)
(* 31 and the generator (2, 12), so that every key and every nonce can be  *)
(* enumerated.  Sign and verify are ECDSA as the library documents it.     *)

schema == [p |-> 43, a |-> 0, b |-> 7, order |-> 31, gx |-> 2, gy |-> 12]

(* Bigi % order, for any Bigi<4>: digit by digit from the most significant *)
RECURSIVE horner(_, _, _)
horner(digits, i, m) ==
    IF i = 0 THEN 0 ELSE (horner(digits, i - 1, m) * 65536 + digits[i]) % m

bigi_mod(v, m) ==
    The({ The({ horner(digits, 16, m) :
                  digits \in {w[4] \o w[3] \o w[2] \o w[1]} }) : w \in {v} })

(* inverse modulo the prime m; 0 for 0 *)
inv_mod(x, m) ==
    IF x % m = 0 THEN 0 ELSE CHOOSE i \in 1..(m - 1) : (i * x) % m = 1

(* affine points with coordinates as numbers below p *)
affine(x, y) == [x |-> x, y |-> y, is_zero |-> FALSE]
affine_zero == [x |-> 0, y |-> 0, is_zero |-> TRUE]

(* CurveTrait::add *)
curve_add(P, Q) ==
    LET m == schema.p
    IN  IF P.is_zero THEN Q
        ELSE IF Q.is_zero THEN P
        ELSE IF P.x = Q.x /\ (P.y + Q.y) % m = 0 THEN affine_zero
        ELSE LET lam == IF P.x = Q.x
                        THEN ((3 * P.x * P.x + schema.a)
                                 * inv_mod(2 * P.y, m)) % m
                        ELSE ((Q.y - P.y) * inv_mod(Q.x - P.x, m)) % m
                 x3  == (lam * lam - P.x - Q.x) % m
                 y3  == (lam * (P.x - x3) - P.y) % m
             IN  affine(x3, y3)

(* CurveTrait::mul: k * P by double and add *)
RECURSIVE curve_mul(_, _)
curve_mul(k, P) ==
    IF k = 0 THEN affine_zero
    ELSE IF k % 2 = 0 THEN LET h == curve_mul(k \div 2, P) IN curve_add(h, h)
    ELSE curve_add(P, curve_mul(k - 1, P))

generator == affine(schema.gx, schema.gy)

(* a Point<4> from an affine point, and back (coordinates modulo p) *)
to_point(A) ==
    IF A.is_zero THEN point_zero ELSE point(BigiOf(A.x), BigiOf(A.y))

to_affine(P) ==
    [x |-> bigi_mod(P.x, schema.p), y |-> bigi_mod(P.y, schema.p),
     is_zero |-> P.is_zero]

(* Schema::get_point(private): private * generator *)
get_point(private) ==
    to_point(curve_mul(bigi_mod(private, schema.order), generator))

(* Schema::generate_pair(rng): the outcomes of the randomness source are  *)
(* the private keys 1 .. order-1, each with its point                      *)
schema_generate_pair ==
    { <<BigiOf(d), get_point(BigiOf(d))>> : d \in 1..(schema.order - 1) }

(* the digest as a number modulo the order *)
hash_mod(hash) == bigi_mod(bigi_from_bytes(hash), schema.order)

(* ecdsa::build_signature with the nonce k drawn by the randomness        *)
(* source, the private key d and the digest z as numbers modulo the order  *)
ecdsa_sign_with(k, d, z) ==
    LET n == schema.order
        r == curve_mul(k, generator).x % n
    IN  <<r, (inv_mod(k, n) * (z + r * d)) % n>>

(* ecdsa::build_signature(rng, schema, private, hash): the outcomes of the *)
(* randomness source; a nonce that gives r = 0 or s = 0 is drawn again     *)
ecdsa_build_signature(private, hash) ==
    The({ { <<BigiOf(rs[1]), BigiOf(rs[2])>> :
              rs \in { q \in { ecdsa_sign_with(k, dz[1], dz[2]) :
                                 k \in 1..(schema.order - 1) } :
                         q[1] # 0 /\ q[2] # 0 } } :
            dz \in {<<bigi_mod(private, schema.order), hash_mod(hash)>>} })

(* a Bigi<4> below the order, as a number; -1 when it is not below it *)
below_order(v) ==
    The({ IF w = BigiOf(w[1][4]) /\ w[1][4] < schema.order
          THEN w[1][4] ELSE -1 : w \in {v} })

(* ecdsa::check_signature(schema, public, hash, signature) *)
ecdsa_verify(Q, z, r, sg) ==
    LET n  == schema.order
        w  == inv_mod(sg, n)
        u1 == (z * w) % n
        u2 == (r * w) % n
    IN  /\ r >= 1
        /\ sg >= 1
        /\ \E X \in {curve_add(curve_mul(u1, generator), curve_mul(u2, Q))} :
              ~X.is_zero /\ X.x % n = r

ecdsa_check_signature(public, hash, sig) ==
    \E a \in {<<to_affine(public), hash_mod(hash),
                below_order(sig[1]), below_order(sig[2])>>} :
        ecdsa_verify(a[1], a[2], a[3], a[4])

(* crypto.rs: build_signature(rng, schema, private_key, group, key,        *)
(* version, data): the set of results over the outcomes of rng             *)
build_signature(private_key, g, k, v, d) ==
    LET private_bigi == private_key_from_bytes(private_key)
        hash == sha256_pack(g, k, v, d)
    IN  { signature_to_bytes(signature_pair) :
            signature_pair \in ecdsa_build_signature(private_bigi, hash) }

(* crypto.rs: check_signature(schema, signature, public_key, group, key,   *)
(* version, data)                                                          *)
check_signature(sig, public_key, g, k, v, d) ==
    LET signature_pair == signature_from_bytes(sig)
        public_point == public_key_from_bytes(public_key)
        hash == sha256_pack(g, k, v, d)
    IN  ecdsa_check_signature(public_point, hash, signature_pair)

(* crypto.rs: generate_pair(rng, schema): the set of results over the      *)
(* outcomes of rng                                                         *)
generate_pair ==
    { LET private_bytes == private_key_to_bytes(pair[1])
          public_bytes == public_key_to_bytes(pair[2])
      IN  IF private_bytes.ok /\ public_bytes.ok
          THEN Ok(<<private_bytes.val, public_bytes.val>>)
          ELSE Panic :
        pair \in schema_generate_pair }

(* crypto.rs: check_pair(schema, private_key, public_key) *)
check_pair(private_key, public_key) ==
    LET private_bigi == private_key_from_bytes(private_key)
        public_point == public_key_from_bytes(public_key)
        public_point_calculated == get_point(private_bigi)
    IN  public_point = public_point_calculated

----------------------------------------------------------------------------
(* Bounds of the arguments *)

MaxStrLen  == 3     \* characters of the argument of str_to_bytes_sized
MaxWidth   == 4     \* the width L of str_to_bytes_sized::<L>
MaxHexLen  == 4     \* characters of the argument of hex_to_bytes_vec
MaxArr     == 2     \* the width L of hex_to_bytes::<L>
MaxDataLen == 2     \* bytes of data of a hashed record
MaxSigData == 1     \* bytes of data of a signed record

(* NUL, 'a', U+00E9 (2 bytes in UTF-8), U+20AC (3 bytes), U+1F600 (4) *)
StrChars == {0, 97, 233, 8364, 128512}

(* '0' '1' '8' '9' 'B' 'C' 'a' 'f', and '+' '-' 'G' U+00E9, which are no *)
(* hex digits                                                            *)
HexChars == {48, 49, 56, 57, 66, 67, 97, 102, 43, 45, 71, 233}

(* the u64 0x0102030405060708 *)
U64Bytes8to1 == <<258, 772, 1286, 1800>>

(* the Bigi<4> whose little-endian bytes are 1, 2, ..., 32 *)
BigiBytes1to32 ==
    [k \in 1..4 |->
        << (8 * k - 1) + 256 * (8 * k), (8 * k - 3) + 256 * (8 * k - 2),
           (8 * k - 5) + 256 * (8 * k - 4), (8 * k - 7) + 256 * (8 * k - 6) >>]

(* the Bigi<4> 2^255 *)
BigiTopBit == <<U64Zero, U64Zero, U64Zero, <<32768, 0, 0, 0>>>>

(* Bigi<4> values: 0, 1, 2^256 - 1, bytes 1..32, 2^255 *)
BigiSamples ==
    { BigiZero,
      BigiOf(1),
      [k \in 1..4 |-> <<65535, 65535, 65535, 65535>>],
      BigiBytes1to32,
      BigiTopBit }

Points == { point(x, y) : x \in BigiSamples, y \in BigiSamples }
              \cup {point_zero}

(* [u8; 32] values for group and key *)
Groups == { Zeros(32), [i \in 1..32 |-> i] }
Keys   == { [i \in 1..32 |-> 255], [i \in 1..32 |-> IF i = 1 THEN 1 ELSE 0] }

(* u64 values: 0, 1, 257, 0x0102030405060708, 2^64 - 1 *)
Versions ==
    { U64Zero, U64Of(1), U64Of(257), U64Bytes8to1,
      <<65535, 65535, 65535, 65535>> }

DataBytes == {0, 1}

StrIdle  == s = <<>> /\ L = 0 /\ sbytes = None /\ sback = None
HexIdle  == hex = <<>> /\ hvec = None /\ harr = None /\ hout = None
KeyIdle  == pt = point_zero /\ kenc = None /\ kdec = None
RecIdle  == group = <<>> /\ key = <<>> /\ version = U64Zero /\ data = <<>>
PackIdle == packed = None /\ digest = None
SignIdle == /\ pair_private = None /\ pair_public = None /\ signature = None
            /\ result = None /\ pair_ok = None

----------------------------------------------------------------------------
(* Specification of the string conversions:                                *)
(*   str_from_bytes(&str_to_bytes_sized::<L>(s))                           *)

InitStr ==
    /\ pc = "start"
    /\ s \in SeqsUpTo(StrChars, MaxStrLen)
    /\ L \in 0..MaxWidth
    /\ sbytes = None
    /\ sback = None
    /\ HexIdle /\ KeyIdle /\ RecIdle /\ PackIdle /\ SignIdle

StrToBytesSized ==
    /\ pc = "start"
    /\ sbytes' = str_to_bytes_sized(s, L)
    /\ pc' = "sized"
    /\ UNCHANGED <<s, L, sback, hexVars, keyVars, recVars, packVars, signVars>>

StrFromBytes ==
    /\ pc = "sized"
    /\ sbytes.ok
    /\ sback' = str_from_bytes(sbytes.val)
    /\ pc' = "str"
    /\ UNCHANGED <<s, L, sbytes, hexVars, keyVars, recVars, packVars, signVars>>

NextStr == StrToBytesSized \/ StrFromBytes

SpecStr == InitStr /\ [][NextStr]_vars

----------------------------------------------------------------------------
(* Specification of the hex conversions:                                   *)
(*   hex_to_bytes_vec(hex), then hex_from_bytes of the vector, or          *)
(*   hex_to_bytes::<L>(hex)                                                *)

InitHex ==
    /\ pc = "start"
    /\ hex \in SeqsUpTo(HexChars, MaxHexLen)
    /\ hvec = None
    /\ harr = None
    /\ hout = None
    /\ StrIdle /\ KeyIdle /\ RecIdle /\ PackIdle /\ SignIdle

HexToBytesVec ==
    /\ pc = "start"
    /\ hvec' = hex_to_bytes_vec(hex)
    /\ pc' = "vec"
    /\ UNCHANGED <<hex, harr, hout, strVars, keyVars, recVars, packVars, signVars>>

HexFromBytes ==
    /\ pc = "vec"
    /\ hvec.ok
    /\ hout' = Ok(hex_from_bytes(hvec.val))
    /\ pc' = "hexed"
    /\ UNCHANGED <<hex, hvec, harr, strVars, keyVars, recVars, packVars, signVars>>

HexToBytes ==
    /\ pc = "vec"
    /\ \E width \in 0..MaxArr :
         /\ L' = width
         /\ harr' = hex_to_bytes(hex, width)
    /\ pc' = "arr"
    /\ UNCHANGED <<hex, hvec, hout, s, sbytes, sback, keyVars, recVars,
                   packVars, signVars>>

NextHex == HexToBytesVec \/ HexFromBytes \/ HexToBytes

SpecHex == InitHex /\ [][NextHex]_vars

----------------------------------------------------------------------------
(* Specification of the key and signature conversions.  The two numbers of *)
(* pt are the coordinates of a public key, the pair (r, s) of a signature, *)
(* and the first of them a private key.                                    *)

InitKey ==
    /\ pc = "start"
    /\ pt \in Points
    /\ kenc = None
    /\ kdec = None
    /\ StrIdle /\ HexIdle /\ RecIdle /\ PackIdle /\ SignIdle

KeyFrame == UNCHANGED <<pt, strVars, hexVars, recVars, packVars, signVars>>

PublicKeyToBytes ==
    /\ pc = "start"
    /\ kenc' = public_key_to_bytes(pt)
    /\ pc' = "public_bytes"
    /\ UNCHANGED kdec /\ KeyFrame

PublicKeyFromBytes ==
    /\ pc = "public_bytes"
    /\ kenc.ok
    /\ kdec' = Ok(public_key_from_bytes(kenc.val))
    /\ pc' = "public_back"
    /\ UNCHANGED kenc /\ KeyFrame

PrivateKeyToBytes ==
    /\ pc = "start"
    /\ kenc' = private_key_to_bytes(pt.x)
    /\ pc' = "private_bytes"
    /\ UNCHANGED kdec /\ KeyFrame

PrivateKeyFromBytes ==
    /\ pc = "private_bytes"
    /\ kenc.ok
    /\ kdec' = Ok(private_key_from_bytes(kenc.val))
    /\ pc' = "private_back"
    /\ UNCHANGED kenc /\ KeyFrame

SignatureToBytes ==
    /\ pc = "start"
    /\ kenc' = signature_to_bytes(<<pt.x, pt.y>>)
    /\ pc' = "signature_bytes"
    /\ UNCHANGED kdec /\ KeyFrame

SignatureFromBytes ==
    /\ pc = "signature_bytes"
    /\ kenc.ok
    /\ kdec' = Ok(signature_from_bytes(kenc.val))
    /\ pc' = "signature_back"
    /\ UNCHANGED kenc /\ KeyFrame

NextKey ==
    \/ PublicKeyToBytes \/ PublicKeyFromBytes
    \/ PrivateKeyToBytes \/ PrivateKeyFromBytes
    \/ SignatureToBytes \/ SignatureFromBytes

SpecKey == InitKey /\ [][NextKey]_vars

----------------------------------------------------------------------------
(* Specification of the hashing of a record: sha256_pack(group, key,       *)
(* version, data)                                                          *)

Records == Groups \X Keys \X Versions \X SeqsUpTo(DataBytes, MaxDataLen)

InitPack ==
    /\ pc = "start"
    /\ \E r \in Records :
         group = r[1] /\ key = r[2] /\ version = r[3] /\ data = r[4]
    /\ packed = None
    /\ digest = None
    /\ StrIdle /\ HexIdle /\ KeyIdle /\ SignIdle

Sha256Pack ==
    /\ pc = "start"
    /\ packed' = Ok(pack(group, key, version, data))
    /\ digest' = Ok(sha256_pack(group, key, version, data))
    /\ pc' = "packed"
    /\ UNCHANGED <<strVars, hexVars, keyVars, recVars, signVars>>

Sha256Hash ==
    /\ pc = "start"
    /\ packed' = Ok(data)
    /\ digest' = Ok(sha256_hash(data))
    /\ pc' = "hashed"
    /\ UNCHANGED <<strVars, hexVars, keyVars, recVars, signVars>>

NextPack == Sha256Pack \/ Sha256Hash

SpecPack == InitPack /\ [][NextPack]_vars

----------------------------------------------------------------------------
(* Specification of signing: generate_pair, then check_pair, or            *)
(* build_signature and check_signature of one record                       *)

SignedRecords ==
    Groups \X Keys \X {U64Of(1), U64Bytes8to1}
        \X SeqsUpTo(DataBytes, MaxSigData)

InitSign ==
    /\ pc = "start"
    /\ \E r \in SignedRecords :
         group = r[1] /\ key = r[2] /\ version = r[3] /\ data = r[4]
    /\ SignIdle
    /\ StrIdle /\ HexIdle /\ KeyIdle /\ PackIdle

SignFrame == UNCHANGED <<strVars, hexVars, keyVars, recVars, packVars>>

GeneratePair ==
    /\ pc = "start"
    /\ \E pair \in generate_pair :
         IF pair.ok
         THEN pair_private' = Ok(pair.val[1]) /\ pair_public' = Ok(pair.val[2])
         ELSE pair_private' = Panic /\ pair_public' = Panic
    /\ pc' = "keys"
    /\ UNCHANGED <<signature, result, pair_ok>> /\ SignFrame

CheckPair ==
    /\ pc = "keys"
    /\ pair_private.ok
    /\ pair_ok' = Ok(check_pair(pair_private.val, pair_public.val))
    /\ pc' = "pair_checked"
    /\ UNCHANGED <<pair_private, pair_public, signature, result>> /\ SignFrame

BuildSignature ==
    /\ pc = "keys"
    /\ pair_private.ok
    /\ \E sig \in build_signature(pair_private.val, group, key, version, data) :
         signature' = sig
    /\ pc' = "signed"
    /\ UNCHANGED <<pair_private, pair_public, result, pair_ok>> /\ SignFrame

CheckSignature ==
    /\ pc = "signed"
    /\ signature.ok
    /\ result' = Ok(check_signature(signature.val, pair_public.val,
                                    group, key, version, data))
    /\ pc' = "checked"
    /\ UNCHANGED <<pair_private, pair_public, signature, pair_ok>> /\ SignFrame

NextSign == GeneratePair \/ CheckPair \/ BuildSignature \/ CheckSignature

SpecSign == InitSign /\ [][NextSign]_vars

----------------------------------------------------------------------------
(* Properties *)

(* byte j (0 the least significant) of a u64 *)
LEByte(v, j) ==
    IF j % 2 = 0 THEN v[4 - (j \div 2)] % 256 ELSE v[4 - (j \div 2)] \div 256

(* byte j (0 the least significant) of a 256-bit Bigi<4> *)
BigiByte(v, j) == LEByte(v[(j \div 8) + 1], j % 8)

UpperDigits == <<48, 49, 50, 51, 52, 53, 54, 55, 56, 57, 65, 66, 67, 68, 69, 70>>
LowerDigits == <<48, 49, 50, 51, 52, 53, 54, 55, 56, 57, 97, 98, 99, 100, 101, 102>>

IsHexDigit(c) == \E d \in 1..16 : c = UpperDigits[d] \/ c = LowerDigits[d]
HexValue(c) == (CHOOSE d \in 1..16 : c = UpperDigits[d] \/ c = LowerDigits[d]) - 1

(* an even-length string of hex digits only *)
WellFormedHex(h) == Len(h) % 2 = 0 /\ \A i \in 1..Len(h) : IsHexDigit(h[i])

UpperCased(h) ==
    [i \in 1..Len(h) |-> IF h[i] >= 97 /\ h[i] <= 122 THEN h[i] - 32 ELSE h[i]]

(* C1: a signature built by build_signature with a generated private key,  *)
(* for any record and any outcome of the randomness source, is encoded     *)
(* without a panic and check_signature returns true for it with the         *)
(* generated public key and the same record.                               *)
C1_SignatureVerifies ==
    /\ (pc = "signed" => signature.ok)
    /\ (pc = "checked" => result = Ok(TRUE))

C1_Witness ==
    /\ pc = "checked"
    /\ result = Ok(TRUE)
    /\ data # <<>>
    /\ version = U64Bytes8to1

(* C2: generate_pair returns a pair, and check_pair of the pair it returns *)
(* is true.                                                                *)
C2_GeneratedPairChecks ==
    /\ (pc = "keys" => pair_private.ok /\ pair_public.ok)
    /\ (pc = "pair_checked" => pair_ok = Ok(TRUE))

C2_Witness ==
    /\ pc = "pair_checked"
    /\ pair_ok = Ok(TRUE)
    /\ pair_private.val # private_key_to_bytes(BigiOf(1)).val

(* the bytes the claim C3 describes: group, key, version in little-endian  *)
(* order, data                                                             *)
ExpectedBytes ==
    [i \in 1..(72 + Len(data)) |->
        IF i <= 32 THEN group[i]
        ELSE IF i <= 64 THEN key[i - 32]
        ELSE IF i <= 72 THEN LEByte(version, i - 65)
        ELSE data[i - 72]]

(* C3: sha256_pack hashes the 72 + len(data) bytes group (0..31), key      *)
(* (32..63), version in little-endian order (64..71, byte 64 the least     *)
(* significant), data; its result is sha256_hash of these bytes.           *)
C3_PackLayout ==
    pc = "packed" =>
        /\ packed = Ok(ExpectedBytes)
        /\ digest = Ok(sha256_hash(ExpectedBytes))

C3_Witness ==
    /\ pc = "packed"
    /\ version = U64Bytes8to1
    /\ data = <<0, 1>>
    /\ packed.val[65] = 8
    /\ packed.val[72] = 1
    /\ Len(packed.val) = 74

(* C4: for an even-length string of n pairs of hex digits,                 *)
(* hex_to_bytes_vec returns n bytes and byte i (from 0) is the value of    *)
(* the characters at 2*(n-1-i) and 2*(n-1-i)+1 (from 0): the last pair     *)
(* comes first; hex_to_bytes::<2>("C18B") is [0x8B, 0xC1].                 *)
C4_HexLastPairFirst ==
    /\ (pc # "start" /\ WellFormedHex(hex)) =>
          LET n == Len(hex) \div 2
          IN  /\ hvec.ok
              /\ Len(hvec.val) = n
              /\ \A i \in 0..(n - 1) :
                    hvec.val[i + 1] =
                        16 * HexValue(hex[2 * (n - 1 - i) + 1])
                           + HexValue(hex[2 * (n - 1 - i) + 2])
    /\ (pc = "arr" /\ hex = <<67, 49, 56, 66>> /\ L = 2) =>
          harr = Ok(<<139, 193>>)

C4_Witness ==
    /\ pc = "arr"
    /\ hex = <<67, 49, 56, 66>>
    /\ L = 2
    /\ hvec = Ok(<<139, 193>>)
    /\ harr = Ok(<<139, 193>>)

(* C5: for an even-length string of hex digits (the empty string and       *)
(* leading "00" pairs included), hex_from_bytes(hex_to_bytes_vec(h)) is h  *)
(* with its letters in upper case.                                         *)
C5_HexRoundTrip ==
    WellFormedHex(hex) =>
        /\ (pc = "vec" => hvec.ok)
        /\ (pc = "hexed" => hout = Ok(UpperCased(hex)))

C5_Witness ==
    /\ pc = "hexed"
    /\ hex = <<48, 48, 97, 49>>
    /\ hout = Ok(<<48, 48, 65, 49>>)

C5_WitnessEmpty == pc = "hexed" /\ hex = <<>> /\ hout = Ok(<<>>)

(* the UTF-8 encoding of s fits the width L and does not end in a zero byte *)
FitsNoTrailingZero ==
    /\ Len(as_bytes(s)) <= L
    /\ (as_bytes(s) = <<>> \/ as_bytes(s)[Len(as_bytes(s))] # 0)

(* C6: when the UTF-8 encoding of s has at most L bytes and does not end   *)
(* in a zero byte, str_from_bytes(str_to_bytes_sized::<L>(s)) is s.        *)
C6_StrRoundTrip ==
    FitsNoTrailingZero =>
        /\ (pc = "sized" => sbytes.ok)
        /\ (pc = "str" => sback = Ok(s))

C6_Witness ==
    /\ pc = "str"
    /\ s = <<97, 0, 233>>
    /\ L = 4
    /\ sbytes = Ok(<<97, 0, 195, 169>>)
    /\ sback = Ok(s)

C6_WitnessPadded ==
    /\ pc = "str"
    /\ s = <<0, 97>>
    /\ L = 4
    /\ sbytes = Ok(<<0, 97, 0, 0>>)
    /\ sback = Ok(s)

(* C7: when the UTF-8 encoding of s is longer than L bytes,                *)
(* str_to_bytes_sized::<L>(s) fails and returns no array.                  *)
C7_OversizedFails ==
    (pc # "start" /\ Len(as_bytes(s)) > L) => ~sbytes.ok

(* C8: hex_to_bytes_vec returns a vector only for even-length strings of   *)
(* hex digits; it fails for odd length and for any other character.        *)
C8_MalformedHexFails ==
    pc # "start" => (hvec.ok <=> WellFormedHex(hex))

(* C9: for a point that is not the zero point, public_key_to_bytes is the  *)
(* 32 little-endian bytes of x then the 32 little-endian bytes of y, and   *)
(* public_key_from_bytes of these bytes is the point.                      *)
C9_PublicKeyRoundTrip ==
    ~pt.is_zero =>
        /\ (pc = "public_bytes" =>
               kenc = Ok([i \in 1..64 |->
                            IF i <= 32 THEN BigiByte(pt.x, i - 1)
                            ELSE BigiByte(pt.y, i - 33)]))
        /\ (pc = "public_back" => kdec = Ok(pt))

C9_Witness ==
    /\ pc = "public_back"
    /\ ~pt.is_zero
    /\ pt.x = BigiBytes1to32
    /\ pt.y = BigiTopBit
    /\ kenc.val[1] = 1 /\ kenc.val[32] = 32 /\ kenc.val[64] = 128
    /\ kdec = Ok(pt)

(* C10: the packing of sha256_pack is injective: the bytes hashed for a    *)
(* record differ from the bytes hashed for every other record.             *)
C10_PackInjective ==
    pc = "packed" =>
        \A r \in Records :
            r # <<group, key, version, data>> =>
                pack(r[1], r[2], r[3], r[4]) # packed.val

C10_Witness ==
    /\ pc = "packed"
    /\ version = U64Of(257)
    /\ data = <<>>
    /\ <<group, key, U64Of(1), <<1>>>> \in Records
    /\ Len(pack(group, key, U64Of(1), <<1>>)) = Len(packed.val) + 1

====
